---------------------------- MODULE Spec2Model ----------------------------
(***************************************************************************)
(* String analyzer service (analyzer/views.py, analyzer/urls.py).          *)
(*                                                                         *)
(* The state is the module-level dictionary db, the wall clock read by     *)
(* datetime.now, and, for every worker thread of the server, the request   *)
(* it is handling, its position in the view, its locals and the response   *)
(* it sent last.  deleted is a history variable: for every value deleted  *)
(* so far, the id of the record that DELETE removed last.  Python strings  *)
(* are TLA+ strings, handled character by character with Len, SubSeq, \o.  *)
(***************************************************************************)
EXTENDS Integers, Sequences, FiniteSets, TLC

VARIABLES db, now, pc, req, loc, resp, deleted

vars == <<db, now, pc, req, loc, resp, deleted>>

(***************************************************************************)
(* Bounds of the model.                                                    *)
(***************************************************************************)
\* number of worker threads of the server
NThreads == 2
\* number of records ever inserted (readings of the clock by POST)
MaxClock == 3
\* the numbers 0..MaxNum are written in the phrases of the parsed texts
MaxNum == 2

Threads == 1..NThreads

(***************************************************************************)
(* Python strings.                                                         *)
(***************************************************************************)
CharAt(s, i) == SubSeq(s, i, i)

Chars(s) == {CharAt(s, i) : i \in 1..Len(s)}

UpperAlpha == "ABCDEFGHIJKLMNOPQRSTUVWXYZ"
LowerAlpha == "abcdefghijklmnopqrstuvwxyz"
Digits == "0123456789"
IndexIn(alphabet, c) ==
    IF \E i \in 1..Len(alphabet) : CharAt(alphabet, i) = c
    THEN CHOOSE i \in 1..Len(alphabet) : CharAt(alphabet, i) = c
    ELSE 0

UpperLetters == Chars(UpperAlpha)
LowerLetters == Chars(LowerAlpha)
DigitChars == Chars(Digits)

\* str.lower, one character
LowerChar(c) ==
    IF c \in UpperLetters THEN CharAt(LowerAlpha, IndexIn(UpperAlpha, c)) ELSE c

RECURSIVE StrLower(_)
\* str.lower
StrLower(s) ==
    IF Len(s) = 0 THEN "" ELSE StrLower(SubSeq(s, 1, Len(s) - 1)) \o LowerChar(CharAt(s, Len(s)))

RECURSIVE StrReverse(_)
\* s[::-1]
StrReverse(s) ==
    IF Len(s) = 0 THEN "" ELSE CharAt(s, Len(s)) \o StrReverse(SubSeq(s, 1, Len(s) - 1))

IsSpace(c) == c = " "
IsDigit(c) == c \in DigitChars
\* [a-z]
IsLowerLetter(c) == c \in LowerLetters
\* \w of a str pattern, on ASCII
IsWordChar(c) == c \in DigitChars \/ c \in LowerLetters \/ c \in UpperLetters \/ c = "_"

\* pat occurs in s at position i
StartsAt(s, i, pat) ==
    /\ i >= 1
    /\ i + Len(pat) - 1 <= Len(s)
    /\ SubSeq(s, i, i + Len(pat) - 1) = pat

\* pat in s
StrContains(s, pat) == \E i \in 1..(Len(s) + 1) : StartsAt(s, i, pat)

\* len(s.split()): the maximal runs of non-whitespace characters
SplitCount(s) ==
    Cardinality({i \in 1..Len(s) :
        /\ ~IsSpace(CharAt(s, i))
        /\ (i = 1 \/ IsSpace(CharAt(s, i - 1)))})

\* ord(c) of a space, a digit or a letter of ASCII, the characters of the model
Ord(c) ==
    IF IsSpace(c) THEN 32
    ELSE IF IsDigit(c) THEN 47 + IndexIn(Digits, c)
    ELSE IF c \in UpperLetters THEN 64 + IndexIn(UpperAlpha, c)
    ELSE 96 + IndexIn(LowerAlpha, c)

\* s.encode("utf-8"): on ASCII, one byte for each character
Utf8(s) == [i \in 1..Len(s) |-> Ord(CharAt(s, i))]

\* int(s) of a run of decimal digits
RECURSIVE DigitsToInt(_)
DigitsToInt(s) ==
    IF Len(s) = 0 THEN 0
    ELSE 10 * DigitsToInt(SubSeq(s, 1, Len(s) - 1)) + (IndexIn(Digits, CharAt(s, Len(s))) - 1)

AllDigits(s) == Len(s) > 0 /\ \A i \in 1..Len(s) : IsDigit(CharAt(s, i))

RECURSIVE StrStrip(_)
\* str.strip, as int() applies it
StrStrip(s) ==
    IF Len(s) > 0 /\ IsSpace(CharAt(s, 1)) THEN StrStrip(SubSeq(s, 2, Len(s)))
    ELSE IF Len(s) > 0 /\ IsSpace(CharAt(s, Len(s))) THEN StrStrip(SubSeq(s, 1, Len(s) - 1))
    ELSE s

\* int(s) of a str: optional surrounding whitespace, optional sign, digits;
\* anything else raises ValueError
PyInt(s) ==
    LET b == StrStrip(s)
        signed == Len(b) > 0 /\ CharAt(b, 1) \in {"+", "-"}
        d == IF signed THEN SubSeq(b, 2, Len(b)) ELSE b
    IN  IF AllDigits(d)
        THEN [exc |-> "none",
              val |-> IF signed /\ CharAt(b, 1) = "-" THEN 0 - DigitsToInt(d) ELSE DigitsToInt(d)]
        ELSE [exc |-> "ValueError", val |-> 0]

(***************************************************************************)
(* compute_string_properties and get_sha256_hash.                          *)
(***************************************************************************)
compute_string_properties(value) ==
    LET lower_value == StrLower(value)
    IN  [length |-> Len(value),
         is_palindrome |-> lower_value = StrReverse(lower_value),
         unique_characters |-> Cardinality(Chars(value)),
         word_count |-> SplitCount(value),
         character_frequency_map |->
             [c \in Chars(value) |-> Cardinality({i \in 1..Len(value) : CharAt(value, i) = c})]]

\* The digest is kept as the term sha256(bytes): SHA-256 is taken to be free
\* of collisions, so two digests are equal exactly when the bytes are.
get_sha256_hash(value) == <<"sha256">> \o Utf8(value)

(***************************************************************************)
(* The dictionary db: its items in insertion order, keyed by id.           *)
(***************************************************************************)
\* key in d, with only the newest item looked at
DictHas_Newest(d, key) == Len(d) > 0 /\ d[Len(d)].id = key

\* key in d
DictHas(d, key) == \E i \in 1..Len(d) : d[i].id = key

\* d[key], for a key of d
DictGet(d, key) == d[CHOOSE i \in 1..Len(d) : d[i].id = key]

\* d[key] = entry: a present key keeps its place, a new key goes last
DictSet(d, key, entry) ==
    IF \E i \in 1..Len(d) : d[i].id = key
    THEN [i \in 1..Len(d) |-> IF d[i].id = key THEN entry ELSE d[i]]
    ELSE Append(d, entry)

\* del d[key], removing the oldest item whatever the key
DictDel_Oldest(d, key) == Tail(d)

\* del d[key], for a key of d
DictDel(d, key) == SelectSeq(d, LAMBDA e : e.id # key)

\* list(d.values())
DictValues(d) == d

\* f[key] = v on a dict f with str keys, kept as a function of its keys
DictPut(f, key, v) == [k \in DOMAIN f \cup {key} |-> IF k = key THEN v ELSE f[k]]


(***************************************************************************)
(* Python values, as json.loads returns them: a type tag and the value.    *)
(***************************************************************************)
PyStr(s) == [ty |-> "str", str |-> s]
PyNum(n) == [ty |-> "int", int |-> n]
PyNone == [ty |-> "NoneType"]
PyList(items) == [ty |-> "list", items |-> items]
PyDict(map) == [ty |-> "dict", map |-> map]

Ok(x) == [exc |-> "none", val |-> x]
Raise(e) == [exc |-> e, val |-> 0]

\* json.loads(request.body): bytes that are not UTF-8 raise UnicodeDecodeError,
\* text that is not JSON raises JSONDecodeError, a document gives its value
json_loads(body) ==
    IF body.text = "undecodable" THEN Raise("UnicodeDecodeError")
    ELSE IF body.text = "malformed" THEN Raise("JSONDecodeError")
    ELSE Ok(body.doc)

\* key in data, for a str key
PyIn(key, data) ==
    IF data.ty = "dict" THEN Ok(key \in DOMAIN data.map)
    ELSE IF data.ty = "list"
        THEN Ok(\E i \in 1..Len(data.items) :
                   data.items[i].ty = "str" /\ data.items[i].str = key)
    ELSE IF data.ty = "str" THEN Ok(StrContains(data.str, key))
    ELSE Raise("TypeError")

\* data[key], for a str key
PyGetItem(data, key) ==
    IF data.ty = "dict"
    THEN (IF key \in DOMAIN data.map THEN Ok(data.map[key]) ELSE Raise("KeyError"))
    ELSE Raise("TypeError")

(***************************************************************************)
(* Responses.  An exception that leaves a view is answered by the server   *)
(* with status 500.                                                        *)
(***************************************************************************)
JsonResponse(body, status) == [status |-> status, body |-> body]
HttpResponse(status) == [status |-> status, body |-> ""]
Unhandled(e) == [status |-> 500, body |-> [exception |-> e]]
ErrorBody(msg) == [error |-> msg]

\* the view of thread t returns response r
Reply(t, r) ==
    /\ resp' = [resp EXCEPT ![t] = r]
    /\ pc' = [pc EXCEPT ![t] = "done"]

NoReq == [view |-> "none"]
NoResp == [status |-> 0, body |-> ""]
NoLoc == << >>

(***************************************************************************)
(* strings_view, POST.                                                     *)
(***************************************************************************)
\* lines 39-49: the body's value, or the response of an early return
post_value(body) ==
    LET data == json_loads(body)
    IN  IF data.exc = "JSONDecodeError"
        THEN [ret |-> TRUE, resp |-> JsonResponse(ErrorBody("Invalid JSON format"), 400)]
        ELSE IF data.exc # "none" THEN [ret |-> TRUE, resp |-> Unhandled(data.exc)]
        ELSE LET has == PyIn("value", data.val)
             IN  IF has.exc # "none" THEN [ret |-> TRUE, resp |-> Unhandled(has.exc)]
                 ELSE IF ~has.val
                 THEN [ret |-> TRUE,
                       resp |-> JsonResponse(ErrorBody("Missing 'value' field in request body"), 404)]
                 ELSE LET value == PyGetItem(data.val, "value")
                      IN  IF value.exc # "none" THEN [ret |-> TRUE, resp |-> Unhandled(value.exc)]
                          ELSE IF value.val.ty # "str"
                          THEN [ret |-> TRUE,
                                resp |-> JsonResponse(ErrorBody("'value' must be a string"), 422)]
                          ELSE [ret |-> FALSE, value |-> value.val.str]

\* lines 56-64
new_entry(value, sha256_hash, created_at) ==
    [id |-> sha256_hash,
     value |-> value,
     properties |-> compute_string_properties(value) @@ [sha256_hash |-> sha256_hash],
     created_at |-> created_at]

\* POSTs that have passed the existence check and not yet inserted
Pending == Cardinality({u \in Threads : pc[u] = "post_insert"})

\* lines 38-54: validate the body, hash the value, look the hash up in db
PostCheck(t, body) ==
    /\ pc[t] = "idle"
    /\ now + Pending < MaxClock
    /\ req' = [req EXCEPT ![t] = [view |-> "strings", method |-> "POST", body |-> body]]
    /\ LET v == post_value(body)
       IN  IF v.ret
           THEN Reply(t, v.resp) /\ UNCHANGED loc
           ELSE LET sha256_hash == get_sha256_hash(v.value)
                IN  IF DictHas(db, sha256_hash)
                    THEN /\ Reply(t, JsonResponse(
                                      ErrorBody("String already exists in the system"), 409))
                         /\ UNCHANGED loc
                    ELSE /\ pc' = [pc EXCEPT ![t] = "post_insert"]
                         /\ loc' = [loc EXCEPT ![t] = [value |-> v.value, sha256_hash |-> sha256_hash]]
                         /\ UNCHANGED resp
    /\ UNCHANGED <<db, now, deleted>>

\* lines 56-67: build the entry with the current time, store it, answer 201
PostInsert(t) ==
    /\ pc[t] = "post_insert"
    /\ LET entry == new_entry(loc[t].value, loc[t].sha256_hash, now)
       IN  /\ db' = DictSet(db, loc[t].sha256_hash, entry)
           /\ Reply(t, JsonResponse(entry, 201))
    /\ now' = now + 1
    /\ loc' = [loc EXCEPT ![t] = NoLoc]
    /\ UNCHANGED <<req, deleted>>

(***************************************************************************)
(* string_detail_view.                                                     *)
(***************************************************************************)
\* urls.py lines 4-13: a path under /strings/ reaches string_detail_view when
\* it is not empty (the route of strings_view), is not the route of
\* filter_by_natural_language, which comes first, and is one segment
RoutesToDetail(string_value) ==
    /\ string_value # ""
    /\ string_value # "filter-by-natural-language"
    /\ ~StrContains(string_value, "/")

\* lines 121-123: hash the value of the path, 404 when the hash is not in db
DetailCheck(t, method, string_value) ==
    /\ pc[t] = "idle"
    /\ RoutesToDetail(string_value)
    /\ req' = [req EXCEPT ![t] =
            [view |-> "detail", method |-> method, string_value |-> string_value]]
    /\ LET sha256_hash == get_sha256_hash(string_value)
       IN  IF ~DictHas(db, sha256_hash)
           THEN /\ Reply(t, JsonResponse(ErrorBody("String does not exist in the system"), 404))
                /\ UNCHANGED loc
           ELSE /\ pc' = [pc EXCEPT ![t] = "detail_act"]
                /\ loc' = [loc EXCEPT ![t] = [sha256_hash |-> sha256_hash]]
                /\ UNCHANGED resp
    /\ UNCHANGED <<db, now, deleted>>

\* lines 126-134: db[sha256_hash] and del db[sha256_hash] raise KeyError
\* when the key is not in db
DetailAct(t) ==
    /\ pc[t] = "detail_act"
    /\ LET h == loc[t].sha256_hash
       IN  IF req[t].method = "GET"
           THEN /\ Reply(t, IF DictHas(db, h) THEN JsonResponse(DictGet(db, h), 200)
                            ELSE Unhandled("KeyError"))
                /\ UNCHANGED <<db, deleted>>
           ELSE IF req[t].method = "DELETE"
           THEN IF DictHas(db, h)
                THEN /\ db' = DictDel(db, h)
                     /\ deleted' = DictPut(deleted, req[t].string_value, DictGet(db, h).id)
                     /\ Reply(t, HttpResponse(204))
                ELSE /\ Reply(t, Unhandled("KeyError"))
                     /\ UNCHANGED <<db, deleted>>
           ELSE /\ Reply(t, JsonResponse(ErrorBody("Method not allowed"), 405))
                /\ UNCHANGED <<db, deleted>>
    /\ loc' = [loc EXCEPT ![t] = NoLoc]
    /\ UNCHANGED <<now, req>>

(***************************************************************************)
(* strings_view, GET: the filters of the query string, applied in turn.    *)
(***************************************************************************)
\* line 78
FilterPalindrome(data, is_palindrome) ==
    SelectSeq(data, LAMBDA s : s.properties.is_palindrome = is_palindrome)
\* line 83, with > for >=
FilterMinLength_Strict(data, min_len) ==
    SelectSeq(data, LAMBDA s : s.properties.length > min_len)
\* line 83
FilterMinLength(data, min_len) == SelectSeq(data, LAMBDA s : s.properties.length >= min_len)
\* line 88
FilterMaxLength(data, max_len) == SelectSeq(data, LAMBDA s : s.properties.length <= max_len)
\* line 93
FilterWordCount(data, w_count) == SelectSeq(data, LAMBDA s : s.properties.word_count = w_count)
\* line 100
FilterContains(data, char) == SelectSeq(data, LAMBDA s : StrContains(s.value, char))

\* Each clause of the try block takes and gives [err, filters, data]; err is
\* "value" once int() has raised ValueError, "char" once contains_character
\* was not one character, and the clauses after it are skipped.
Skip(s, GET, name) == s.err # "" \/ name \notin DOMAIN GET

\* lines 75-78
get_is_palindrome(s, GET) ==
    IF Skip(s, GET, "is_palindrome") THEN s
    ELSE LET is_palindrome == StrLower(GET["is_palindrome"]) = "true"
         IN  [err |-> "",
              filters |-> DictPut(s.filters, "is_palindrome", is_palindrome),
              data |-> FilterPalindrome(s.data, is_palindrome)]

\* lines 80-83
get_min_length(s, GET) ==
    IF Skip(s, GET, "min_length") THEN s
    ELSE LET min_len == PyInt(GET["min_length"])
         IN  IF min_len.exc # "none" THEN [s EXCEPT !.err = "value"]
             ELSE [err |-> "",
                   filters |-> DictPut(s.filters, "min_length", min_len.val),
                   data |-> FilterMinLength(s.data, min_len.val)]

\* lines 85-88
get_max_length(s, GET) ==
    IF Skip(s, GET, "max_length") THEN s
    ELSE LET max_len == PyInt(GET["max_length"])
         IN  IF max_len.exc # "none" THEN [s EXCEPT !.err = "value"]
             ELSE [err |-> "",
                   filters |-> DictPut(s.filters, "max_length", max_len.val),
                   data |-> FilterMaxLength(s.data, max_len.val)]

\* lines 90-93
get_word_count(s, GET) ==
    IF Skip(s, GET, "word_count") THEN s
    ELSE LET w_count == PyInt(GET["word_count"])
         IN  IF w_count.exc # "none" THEN [s EXCEPT !.err = "value"]
             ELSE [err |-> "",
                   filters |-> DictPut(s.filters, "word_count", w_count.val),
                   data |-> FilterWordCount(s.data, w_count.val)]

\* lines 95-100
get_contains_character(s, GET) ==
    IF Skip(s, GET, "contains_character") THEN s
    ELSE LET char == GET["contains_character"]
         IN  IF Len(char) # 1 THEN [s EXCEPT !.err = "char"]
             ELSE [err |-> "",
                   filters |-> DictPut(s.filters, "contains_character", char),
                   data |-> FilterContains(s.data, char)]

\* lines 70-110
strings_get(d, GET) ==
    LET s0 == [err |-> "", filters |-> << >>, data |-> DictValues(d)]
        s == get_contains_character(get_word_count(get_max_length(
                 get_min_length(get_is_palindrome(s0, GET), GET), GET), GET), GET)
    IN  IF s.err = "char"
        THEN JsonResponse(ErrorBody(
                 "Invalid value for 'contains_character'. Must be a single character."), 400)
        ELSE IF s.err = "value"
        THEN JsonResponse(ErrorBody("Invalid query parameter value or type"), 400)
        ELSE JsonResponse([data |-> s.data, count |-> Len(s.data), filters_applied |-> s.filters],
                          200)

\* lines 70-110: GET /strings
StringsGet(t, GET) ==
    /\ pc[t] = "idle"
    /\ req' = [req EXCEPT ![t] = [view |-> "strings", method |-> "GET", GET |-> GET]]
    /\ Reply(t, strings_get(db, GET))
    /\ UNCHANGED <<db, now, loc, deleted>>

\* line 112: any method of /strings but POST and GET
StringsOther(t, method) ==
    /\ pc[t] = "idle"
    /\ method \notin {"POST", "GET"}
    /\ req' = [req EXCEPT ![t] = [view |-> "strings", method |-> method]]
    /\ Reply(t, JsonResponse(ErrorBody("Method not allowed"), 405))
    /\ UNCHANGED <<db, now, loc, deleted>>

(***************************************************************************)
(* re.search for the patterns of parse_natural_language_query.  A match is *)
(* [found, g1]: whether the pattern occurs, and group 1 of the leftmost    *)
(* occurrence.                                                             *)
(***************************************************************************)
NoMatch == [found |-> FALSE, g1 |-> ""]

\* the end of the longest run of characters of the class cls (\d+, \s*) that
\* starts at j; j - 1 when there is none
RunEnd(s, j, cls) ==
    CHOOSE k \in (j - 1)..Len(s) :
        /\ \A m \in j..k : CharAt(s, m) \in cls
        /\ k = Len(s) \/ CharAt(s, k + 1) \notin cls

\* the leftmost of a set of positions, 0 when there is none
Leftmost(S) == IF S = {} THEN 0 ELSE CHOOSE i \in S : \A j \in S : i <= j

\* \b between positions i - 1 and i
WordBoundary(s, i) ==
    (i >= 2 /\ i - 1 <= Len(s) /\ IsWordChar(CharAt(s, i - 1)))
        # (i >= 1 /\ i <= Len(s) /\ IsWordChar(CharAt(s, i)))

\* \s+word at position e
SpacesThenWord(s, e) ==
    LET k == RunEnd(s, e, {" "}) IN k >= e /\ StartsAt(s, k + 1, "word")

NumberWords == {"one", "two", "three", "four", "five", "single"}

\* (\b(one|two|three|four|five|single)\b|\d+)\s+word at position i: the end
\* of group 1, 0 when the pattern does not match there
WordCountEnd(s, i) ==
    LET named == {w \in NumberWords :
                     /\ StartsAt(s, i, w)
                     /\ WordBoundary(s, i)
                     /\ WordBoundary(s, i + Len(w))
                     /\ SpacesThenWord(s, i + Len(w))}
        k == RunEnd(s, i, DigitChars)
    IN  IF named # {} THEN i + Len(CHOOSE w \in named : TRUE) - 1
        ELSE IF k >= i /\ SpacesThenWord(s, k + 1) THEN k
        ELSE 0

\* line 149
word_count_search(s) ==
    LET i == Leftmost({j \in 1..Len(s) : WordCountEnd(s, j) > 0})
    IN  IF i = 0 THEN NoMatch ELSE [found |-> TRUE, g1 |-> SubSeq(s, i, WordCountEnd(s, i))]

\* prefix(\d+) at position i, prefix a literal text
\* lines 158 and 162
number_after_search(s, prefix) ==
    LET i == Leftmost({j \in 1..Len(s) :
                 StartsAt(s, j, prefix) /\ RunEnd(s, j + Len(prefix), DigitChars) >= j + Len(prefix)})
    IN  IF i = 0 THEN NoMatch
        ELSE [found |-> TRUE,
              g1 |-> SubSeq(s, i + Len(prefix), RunEnd(s, i + Len(prefix), DigitChars))]

\* line 166: exactly (\d+) characters
exactly_search(s) ==
    LET i == Leftmost({j \in 1..Len(s) :
                 /\ StartsAt(s, j, "exactly ")
                 /\ RunEnd(s, j + 8, DigitChars) >= j + 8
                 /\ StartsAt(s, RunEnd(s, j + 8, DigitChars) + 1, " characters")})
    IN  IF i = 0 THEN NoMatch
        ELSE [found |-> TRUE, g1 |-> SubSeq(s, i + 8, RunEnd(s, i + 8, DigitChars))]

\* contain(?:s|ing) the letter ([a-z]) at position i: the place of group 1,
\* 0 when the pattern does not match there
ContainsLetterAt(s, i) ==
    LET j == IF StartsAt(s, i, "contains") THEN i + 8
             ELSE IF StartsAt(s, i, "containing") THEN i + 10
             ELSE 0
    IN  IF j > 0 /\ StartsAt(s, j, " the letter ") /\ j + 12 <= Len(s)
                 /\ IsLowerLetter(CharAt(s, j + 12))
        THEN j + 12 ELSE 0

\* line 172
contains_search(s) ==
    LET i == Leftmost({j \in 1..Len(s) : ContainsLetterAt(s, j) > 0})
    IN  IF i = 0 THEN NoMatch ELSE [found |-> TRUE, g1 |-> CharAt(s, ContainsLetterAt(s, i))]

(***************************************************************************)
(* parse_natural_language_query: seven checks on the lowercased query,     *)
(* each taking and giving the dict filters.                                *)
(***************************************************************************)
word_map == [one |-> 1, two |-> 2, three |-> 3, four |-> 4, five |-> 5, single |-> 1]

\* lines 146-147
check_palindrome(filters, query) ==
    IF StrContains(query, "palindromic") \/ StrContains(query, "palindrome")
    THEN DictPut(filters, "is_palindrome", TRUE) ELSE filters

\* lines 149-156
check_word_count(filters, query) ==
    LET word_count_match == word_count_search(query)
        count_str == word_count_match.g1
    IN  IF ~word_count_match.found THEN filters
        ELSE IF count_str \in DOMAIN word_map
        THEN DictPut(filters, "word_count", word_map[count_str])
        ELSE IF AllDigits(count_str)
        THEN DictPut(filters, "word_count", DigitsToInt(count_str))
        ELSE filters

\* lines 158-160
check_longer(filters, query) ==
    LET min_length_match == number_after_search(query, "longer than ")
    IN  IF min_length_match.found
        THEN DictPut(filters, "min_length", DigitsToInt(min_length_match.g1) + 1)
        ELSE filters

\* lines 162-164
check_shorter(filters, query) ==
    LET max_length_match == number_after_search(query, "shorter than ")
    IN  IF max_length_match.found
        THEN DictPut(filters, "max_length", DigitsToInt(max_length_match.g1) - 1)
        ELSE filters

\* lines 166-170
check_exactly(filters, query) ==
    LET length_match == exactly_search(query)
        length == DigitsToInt(length_match.g1)
    IN  IF length_match.found
        THEN DictPut(DictPut(filters, "min_length", length), "max_length", length)
        ELSE filters

\* lines 172-174
check_contains(filters, query) ==
    LET contains_match == contains_search(query)
    IN  IF contains_match.found
        THEN DictPut(filters, "contains_character", contains_match.g1)
        ELSE filters

\* lines 176-177
check_first_vowel(filters, query) ==
    IF StrContains(query, "first vowel")
    THEN DictPut(filters, "contains_character", "a") ELSE filters

\* the checks with exactly N characters moved before longer than and shorter than
run_checks_ExactlyFirst(query) ==
    check_first_vowel(check_contains(check_shorter(check_longer(check_exactly(
        check_word_count(check_palindrome(<< >>, query), query), query), query), query),
        query), query)

\* lines 142-177 after query.lower(): the checks in the order of the source
run_checks(query) ==
    check_first_vowel(check_contains(check_exactly(check_shorter(check_longer(
        check_word_count(check_palindrome(<< >>, query), query), query), query), query),
        query), query)

None == [none |-> TRUE]

\* lines 137-182
parse_natural_language_query(original_query) ==
    LET filters == run_checks(StrLower(original_query))
    IN  IF DOMAIN filters = {} THEN None
        ELSE [original |-> original_query, parsed_filters |-> filters]

(***************************************************************************)
(* filter_by_natural_language.                                             *)
(***************************************************************************)
RECURSIVE NatToStr(_)
NatToStr(n) ==
    IF n < 10 THEN CharAt(Digits, n + 1)
    ELSE NatToStr(n \div 10) \o CharAt(Digits, (n % 10) + 1)

\* str(n) of an int
IntToStr(n) == IF n < 0 THEN "-" \o NatToStr(0 - n) ELSE NatToStr(n)

\* line 213
nl_filter_palindrome(data) == SelectSeq(data, LAMBDA s : s.properties.is_palindrome)
\* line 216
nl_filter_word_count(data, wc) == SelectSeq(data, LAMBDA s : s.properties.word_count = wc)
\* line 219
nl_filter_min_length(data, ml) == SelectSeq(data, LAMBDA s : s.properties.length >= ml)
\* line 222, with < for <=
nl_filter_max_length_Strict(data, mxl) ==
    SelectSeq(data, LAMBDA s : s.properties.length < mxl)
\* line 222
nl_filter_max_length(data, mxl) == SelectSeq(data, LAMBDA s : s.properties.length <= mxl)
\* line 225
nl_filter_contains(data, char) == SelectSeq(data, LAMBDA s : StrContains(s.value, char))

\* lines 210-225
nl_apply(d, parsed_filters) ==
    LET d0 == DictValues(d)
        d1 == IF "is_palindrome" \in DOMAIN parsed_filters /\ parsed_filters["is_palindrome"]
              THEN nl_filter_palindrome(d0) ELSE d0
        d2 == IF "word_count" \in DOMAIN parsed_filters
              THEN nl_filter_word_count(d1, parsed_filters["word_count"]) ELSE d1
        d3 == IF "min_length" \in DOMAIN parsed_filters
              THEN nl_filter_min_length(d2, parsed_filters["min_length"]) ELSE d2
        d4 == IF "max_length" \in DOMAIN parsed_filters
              THEN nl_filter_max_length(d3, parsed_filters["max_length"]) ELSE d3
    IN  IF "contains_character" \in DOMAIN parsed_filters
        THEN nl_filter_contains(d4, parsed_filters["contains_character"]) ELSE d4

\* lines 203-204, with >= for >
nl_conflict_GreaterEqual(parsed_filters) ==
    /\ "min_length" \in DOMAIN parsed_filters
    /\ "max_length" \in DOMAIN parsed_filters
    /\ parsed_filters["min_length"] >= parsed_filters["max_length"]

\* lines 203-204
nl_conflict(parsed_filters) ==
    /\ "min_length" \in DOMAIN parsed_filters
    /\ "max_length" \in DOMAIN parsed_filters
    /\ parsed_filters["min_length"] > parsed_filters["max_length"]

\* lines 201-232: the response once the query is parsed
nl_answer(d, interpreted_query) ==
    LET parsed_filters == interpreted_query.parsed_filters
    IN  IF nl_conflict(parsed_filters)
        THEN JsonResponse([error |-> "Query parsed but resulted in conflicting filters",
                           conflicts |-> "min_length ("
                               \o IntToStr(parsed_filters["min_length"])
                               \o ") cannot be greater than max_length ("
                               \o IntToStr(parsed_filters["max_length"]) \o ")"], 422)
        ELSE JsonResponse([data |-> nl_apply(d, parsed_filters),
                           count |-> Len(nl_apply(d, parsed_filters)),
                           interpreted_query |-> interpreted_query], 200)

\* lines 197-232: the response for the result of the parser
nl_parsed(d, interpreted_query) ==
    IF interpreted_query = None
    THEN JsonResponse(ErrorBody("Unable to parse natural language query"), 400)
    ELSE nl_answer(d, interpreted_query)

\* lines 190-232; request.GET.get of a missing key is None
nl_view(d, method, GET) ==
    IF method # "GET" THEN JsonResponse(ErrorBody("Method not allowed"), 405)
    ELSE IF "query" \notin DOMAIN GET \/ GET["query"] = ""
    THEN JsonResponse(ErrorBody("Missing 'query' parameter"), 400)
    ELSE \* line 197: the query is parsed once, and its result named
         CHOOSE r \in {nl_parsed(d, interpreted_query) :
                           interpreted_query \in {parse_natural_language_query(GET["query"])}} :
             TRUE

\* lines 185-232: /strings/filter-by-natural-language
NaturalLanguage(t, method, GET) ==
    /\ pc[t] = "idle"
    /\ req' = [req EXCEPT ![t] = [view |-> "nl", method |-> method, GET |-> GET]]
    /\ Reply(t, nl_view(db, method, GET))
    /\ UNCHANGED <<db, now, loc, deleted>>

(***************************************************************************)
(* The server sends the response of a view and the worker is free for the  *)
(* next request.                                                           *)
(***************************************************************************)
Respond(t) ==
    /\ pc[t] = "done"
    /\ pc' = [pc EXCEPT ![t] = "idle"]
    /\ req' = [req EXCEPT ![t] = NoReq]
    /\ resp' = [resp EXCEPT ![t] = NoResp]
    /\ UNCHANGED <<db, now, loc, deleted>>

(***************************************************************************)
(* Inputs.                                                                 *)
(***************************************************************************)
Values == {"", "Aa", "ab", "b b"}

Methods == {"GET", "POST", "DELETE", "PUT"}

Json(doc) == [text |-> "json", doc |-> doc]

Bodies ==
    {[text |-> "undecodable", doc |-> PyNone], [text |-> "malformed", doc |-> PyNone]}
    \cup {Json(PyNum(5)), Json(PyNone), Json(PyStr("abc")), Json(PyStr("a value")),
          Json(PyList(<< >>)), Json(PyList(<<PyNum(1), PyStr("value")>>)),
          Json(PyDict(<< >>)), Json(PyDict([other |-> PyStr("ab")])),
          Json(PyDict([value |-> PyNum(5)])), Json(PyDict([value |-> PyNone])),
          Json(PyDict([value |-> PyList(<<PyStr("ab")>>)]))}
    \cup {Json(PyDict([value |-> PyStr(s)])) : s \in Values}

\* a query string with the parameter name, one for each value of S, or without
Opt(name, S) == {<< >>} \cup {name :> v : v \in S}

\* the query strings of GET /strings
GetParams ==
    {p1 @@ p2 @@ p3 @@ p4 @@ p5 :
        p1 \in Opt("is_palindrome", {"True", "false"}),
        p2 \in Opt("min_length", {"2", "x"}),
        p3 \in Opt("max_length", {" 2", "-1"}),
        p4 \in Opt("word_count", {"1"}),
        p5 \in Opt("contains_character", {"b", "ab"})}

\* the query texts of GET /strings/filter-by-natural-language
NlQueries ==
    {"", "hello", "Palindromic strings", "single word palindrome", "2 words",
     "longer than 1 shorter than 3", "longer than 2 shorter than 2",
     "exactly 2 characters", "exactly 3 characters containing the letter A",
     "contains the letter b", "first vowel longer than 1", "shorter than 1"}

NlParams == Opt("query", NlQueries)

\* the texts handed to parse_natural_language_query on its own: one phrase
\* or none for each of its checks, with the numbers 0..MaxNum
Phrase(prefix, suffix) == {""} \cup {prefix \o IntToStr(n) \o suffix : n \in 0..MaxNum}

ParseQueries ==
    {p \o w \o l \o s \o e \o c \o v :
        p \in {"", "Palindromic ", "a palindrome "},
        w \in {"", "Two words ", "12 word "},
        l \in Phrase("longer than ", " "),
        s \in Phrase("shorter than ", " "),
        e \in Phrase("exactly ", " characters "),
        c \in {"", "contains the letter B ", "containing the letter z "},
        v \in {"", "First Vowel"}}

\* the values of the concurrent requests
ConcValues == {"ab", "Aa"}

(***************************************************************************)
(* Spec: the service with one worker, so that requests are handled one at  *)
(* a time.                                                                 *)
(***************************************************************************)
Init ==
    /\ db = << >>
    /\ now = 0
    /\ pc = [t \in Threads |-> "idle"]
    /\ req = [t \in Threads |-> NoReq]
    /\ loc = [t \in Threads |-> NoLoc]
    /\ resp = [t \in Threads |-> NoResp]
    /\ deleted = << >>

Next ==
    \/ \E body \in Bodies : PostCheck(1, body)
    \/ PostInsert(1)
    \/ \E GET \in GetParams : StringsGet(1, GET)
    \/ \E method \in Methods : StringsOther(1, method)
    \/ \E method \in Methods, string_value \in Values : DetailCheck(1, method, string_value)
    \/ DetailAct(1)
    \/ \E method \in Methods, GET \in NlParams : NaturalLanguage(1, method, GET)
    \/ Respond(1)

Spec == Init /\ [][Next]_vars

(***************************************************************************)
(* SpecConc: the views of POST /strings and /strings/{value} run by all    *)
(* the workers, a step of one interleaved with the steps of the others.    *)
(* Nothing in views.py locks db.                                           *)
(***************************************************************************)
NextConc ==
    \E t \in Threads :
        \/ \E s \in ConcValues : PostCheck(t, Json(PyDict([value |-> PyStr(s)])))
        \/ PostInsert(t)
        \/ \E method \in {"GET", "DELETE"}, s \in ConcValues : DetailCheck(t, method, s)
        \/ DetailAct(t)
        \/ Respond(t)

SpecConc == Init /\ [][NextConc]_vars

(***************************************************************************)
(* SpecParse: parse_natural_language_query applied to a text.              *)
(***************************************************************************)
InitParse ==
    /\ db = << >>
    /\ now = 0
    /\ pc = [t \in Threads |-> IF t = 1 THEN "parse" ELSE "idle"]
    /\ \E query \in ParseQueries :
           req = [t \in Threads |-> IF t = 1 THEN [view |-> "parse", query |-> query] ELSE NoReq]
    /\ loc = [t \in Threads |-> NoLoc]
    /\ resp = [t \in Threads |-> NoResp]
    /\ deleted = << >>

Parse(t) ==
    /\ pc[t] = "parse"
    /\ Reply(t, [status |-> 0, body |-> parse_natural_language_query(req[t].query)])
    /\ UNCHANGED <<db, now, req, loc, deleted>>

NextParse == Parse(1)

SpecParse == InitParse /\ [][NextParse]_vars

(***************************************************************************)
(* Vocabulary of the properties.                                           *)
(***************************************************************************)
Done(t) == pc[t] = "done"

IsPost(r) == r.view = "strings" /\ r.method = "POST"
IsList(r) == r.view = "strings" /\ r.method = "GET"
IsDetail(r, method) == r.view = "detail" /\ r.method = method
IsNlGet(r) == r.view = "nl" /\ r.method = "GET"

\* the body is a JSON object whose field value is a string
WellFormedPost(r) ==
    /\ IsPost(r)
    /\ r.body.text = "json"
    /\ r.body.doc.ty = "dict"
    /\ "value" \in DOMAIN r.body.doc.map
    /\ r.body.doc.map["value"].ty = "str"

PostedValue(r) == r.body.doc.map["value"].str

\* the store d holds a record whose id is the hash of value
HashPresent(d, value) == \E i \in 1..Len(d) : d[i].id = get_sha256_hash(value)

\* the store d without the records of value
Without(d, value) == SelectSeq(d, LAMBDA e : e.value # value)

\* thread t takes the step of its view from position from to position to
Step(t, from, to) == pc[t] = from /\ pc'[t] = to

(***************************************************************************)
(* C1.  With requests handled one at a time the store holds at most one    *)
(* record for each id; a POST of a value whose hash is present returns 409  *)
(* and leaves the store unchanged; a POST of an absent value returns 201   *)
(* and adds exactly one record, keyed by the hash of the value.            *)
(***************************************************************************)
C1_UniqueIds == \A i, j \in 1..Len(db) : db[i].id = db[j].id => i = j

C1_PostStep ==
    \A t \in Threads :
        /\ (pc[t] = "idle" /\ WellFormedPost(req'[t]) /\ HashPresent(db, PostedValue(req'[t])))
               => (pc'[t] = "done" /\ resp'[t].status = 409 /\ db' = db)
        /\ (pc[t] = "idle" /\ WellFormedPost(req'[t]) /\ ~HashPresent(db, PostedValue(req'[t])))
               => (pc'[t] = "post_insert" /\ db' = db)
        /\ Step(t, "post_insert", "done")
               => /\ resp'[t].status = 201
                  /\ resp'[t].body.id = get_sha256_hash(PostedValue(req[t]))
                  /\ resp'[t].body.value = PostedValue(req[t])
                  /\ db' = Append(db, resp'[t].body)

\* C1: the ids of the store are unique in every state, and every step of a
\* POST answers and changes the store as the claim says
C1_OneRecordPerId == [](C1_UniqueIds) /\ [][C1_PostStep]_vars

\* a POST of a stored value was answered 409 while the store held two records
C1_Witness ==
    \E t \in Threads :
        /\ Done(t) /\ WellFormedPost(req[t]) /\ resp[t].status = 409
        /\ Len(db) >= 2

(***************************************************************************)
(* C2.  Concurrent POSTs of one value: a POST stores its record and        *)
(* returns 201 only while the hash of the value is still absent, so that   *)
(* of the POSTs of a value with no DELETE between them exactly one returns *)
(* 201.                                                                    *)
(***************************************************************************)
\* C2: no POST stores its record over a record another request stored
\* since its existence check
C2_InsertSerialized ==
    [][\A t \in Threads :
          Step(t, "post_insert", "done") => ~HashPresent(db, PostedValue(req[t]))]_vars

(***************************************************************************)
(* C3.  Every malformed body of POST /strings is answered 4xx: 400 when it *)
(* is not valid JSON, 404 when it has no field value, 422 when value is no  *)
(* string.                                                                 *)
(***************************************************************************)
\* C3: a finished POST whose body is not an object with a string value has
\* status 400, 404 or 422 according to the body
C3_MalformedPostIs4xx ==
    \A t \in Threads :
        (Done(t) /\ IsPost(req[t]) /\ ~WellFormedPost(req[t]))
            => IF req[t].body.text # "json" THEN resp[t].status = 400
               ELSE IF req[t].body.doc.ty = "dict" /\ "value" \in DOMAIN req[t].body.doc.map
               THEN resp[t].status = 422
               ELSE resp[t].status = 404

(***************************************************************************)
(* C4.  A request whose method is not defined for its path is answered    *)
(* 405, whatever the store holds: other than GET and POST on /strings,     *)
(* other than GET on /strings/filter-by-natural-language, other than GET   *)
(* and DELETE on /strings/{value}.                                         *)
(***************************************************************************)
\* C4: a finished request with a method its path does not define has status 405
C4_OtherMethodIs405 ==
    \A t \in Threads :
        (/\ Done(t)
         /\ \/ req[t].view = "strings" /\ req[t].method \notin {"GET", "POST"}
            \/ req[t].view = "nl" /\ req[t].method # "GET"
            \/ req[t].view = "detail" /\ req[t].method \notin {"GET", "DELETE"})
            => resp[t].status = 405

(***************************************************************************)
(* C5.  GET /strings with well-formed filters returns exactly the stored   *)
(* records that satisfy every supplied filter, in the order of the store;  *)
(* count is their number, filters_applied holds exactly the supplied       *)
(* filters, and without filters the data is every stored record.          *)
(***************************************************************************)
FilterNames == {"is_palindrome", "min_length", "max_length", "word_count", "contains_character"}
IntNames == {"min_length", "max_length", "word_count"}

\* the integers whose decimal text is read back in the properties
Ints == (0 - 20)..20

IsIntText(text) == \E n \in Ints : IntToStr(n) = StrStrip(text)
IntOf(text) == CHOOSE n \in Ints : IntToStr(n) = StrStrip(text)

WellFormedFilters(GET) ==
    /\ \A name \in DOMAIN GET \cap IntNames : IsIntText(GET[name])
    /\ "contains_character" \in DOMAIN GET => Len(GET["contains_character"]) = 1

\* the value of filter name as the query string GET gives it
FilterValue(GET, name) ==
    IF name = "is_palindrome" THEN GET[name] \in {"true", "True", "TRUE"}
    ELSE IF name \in IntNames THEN IntOf(GET[name])
    ELSE GET[name]

\* record e satisfies the filter name with value v
Satisfies(e, name, v) ==
    IF name = "is_palindrome" THEN e.properties.is_palindrome = v
    ELSE IF name = "min_length" THEN e.properties.length >= v
    ELSE IF name = "max_length" THEN e.properties.length <= v
    ELSE IF name = "word_count" THEN e.properties.word_count = v
    ELSE \E i \in 1..Len(e.value) : CharAt(e.value, i) = v

\* C5: the response of a finished GET /strings with well-formed filters,
\* against the store and the query string
C5_ConjunctiveFilter ==
    \A t \in Threads :
        (Done(t) /\ IsList(req[t]) /\ WellFormedFilters(req[t].GET))
            => LET GET == req[t].GET
                   supplied == DOMAIN GET \cap FilterNames
                   body == resp[t].body
               IN  /\ resp[t].status = 200
                   /\ body.data = SelectSeq(db, LAMBDA e :
                          \A name \in supplied : Satisfies(e, name, FilterValue(GET, name)))
                   /\ body.count = Len(body.data)
                   /\ DOMAIN body.filters_applied = supplied
                   /\ \A name \in supplied : body.filters_applied[name] = FilterValue(GET, name)
                   /\ supplied = {} => body.data = db

\* three filters at once kept some of the stored records and dropped others
C5_Witness ==
    \E t \in Threads :
        /\ Done(t) /\ IsList(req[t]) /\ WellFormedFilters(req[t].GET)
        /\ Cardinality(DOMAIN req[t].GET) >= 3
        /\ resp[t].status = 200
        /\ resp[t].body.count >= 1 /\ resp[t].body.count < Len(db)

(***************************************************************************)
(* C6.  parse_natural_language_query gives the filters of its seven checks *)
(* with the later check winning: longer than N gives min_length N + 1,     *)
(* shorter than N gives max_length N - 1, exactly N characters overrides   *)
(* both with N, first vowel overrides the letter of contains the letter.   *)
(* The text is kept as written, and the result is None exactly when no     *)
(* check matched.                                                          *)
(***************************************************************************)
Matched(query) ==
    LET q == StrLower(query)
    IN  [palindrome |-> StrContains(q, "palindromic") \/ StrContains(q, "palindrome"),
         words |-> word_count_search(q),
         longer |-> number_after_search(q, "longer than "),
         shorter |-> number_after_search(q, "shorter than "),
         exactly |-> exactly_search(q),
         letter |-> contains_search(q),
         vowel |-> StrContains(q, "first vowel")]

ExpectedFilters(m) ==
    LET names ==
            {n \in {"is_palindrome"} : m.palindrome}
            \cup {n \in {"word_count"} : m.words.found}
            \cup {n \in {"min_length"} : m.longer.found \/ m.exactly.found}
            \cup {n \in {"max_length"} : m.shorter.found \/ m.exactly.found}
            \cup {n \in {"contains_character"} : m.letter.found \/ m.vowel}
    IN  [n \in names |->
            IF n = "is_palindrome" THEN TRUE
            ELSE IF n = "word_count"
                THEN (IF m.words.g1 \in DOMAIN word_map THEN word_map[m.words.g1]
                      ELSE DigitsToInt(m.words.g1))
            ELSE IF n = "min_length"
                THEN (IF m.exactly.found THEN DigitsToInt(m.exactly.g1)
                      ELSE DigitsToInt(m.longer.g1) + 1)
            ELSE IF n = "max_length"
                THEN (IF m.exactly.found THEN DigitsToInt(m.exactly.g1)
                      ELSE DigitsToInt(m.shorter.g1) - 1)
            ELSE (IF m.vowel THEN "a" ELSE m.letter.g1)]

\* C6: the result of the parser is None or the text with the filters that
\* the matched checks give under the later-wins rules
C6_ParseOrder ==
    \A t \in Threads :
        (Done(t) /\ req[t].view = "parse")
            => LET expected == ExpectedFilters(Matched(req[t].query))
               IN  IF DOMAIN expected = {} THEN resp[t].body = None
                   ELSE /\ resp[t].body # None
                        /\ resp[t].body.original = req[t].query
                        /\ resp[t].body.parsed_filters = expected

\* a text written with capitals in which longer than, shorter than, exactly
\* and both checks of contains_character matched
C6_Witness ==
    \E t \in Threads :
        /\ Done(t) /\ req[t].view = "parse"
        /\ req[t].query # StrLower(req[t].query)
        /\ LET m == Matched(req[t].query)
           IN  /\ m.longer.found /\ m.shorter.found /\ m.exactly.found
               /\ m.letter.found /\ m.vowel
               /\ DigitsToInt(m.longer.g1) + 1 # DigitsToInt(m.exactly.g1)
               /\ m.letter.g1 # "a"
        /\ resp[t].body.parsed_filters["contains_character"] = "a"

(***************************************************************************)
(* C7.  GET /strings/filter-by-natural-language returns 400 when query is  *)
(* missing or empty, 400 when no check matches, 422 with the field         *)
(* conflicts exactly when both min_length and max_length are parsed and    *)
(* min_length > max_length, and 200 otherwise; no outcome changes the      *)
(* store.                                                                  *)
(***************************************************************************)
Conflicting(f) ==
    /\ {"min_length", "max_length"} \subseteq DOMAIN f
    /\ f["min_length"] > f["max_length"]

C7_Status ==
    \A t \in Threads :
        (Done(t) /\ IsNlGet(req[t]))
            => LET GET == req[t].GET
               IN  IF "query" \notin DOMAIN GET \/ GET["query"] = "" THEN resp[t].status = 400
                   ELSE LET parsed == parse_natural_language_query(GET["query"])
                        IN  IF parsed = None THEN resp[t].status = 400
                            ELSE IF Conflicting(parsed.parsed_filters)
                            THEN /\ resp[t].status = 422
                                 /\ "conflicts" \in DOMAIN resp[t].body
                            ELSE /\ resp[t].status = 200
                                 /\ ~Conflicting(resp[t].body.interpreted_query.parsed_filters)

C7_StoreUnchanged == \A t \in Threads : (pc[t] = "idle" /\ req'[t].view = "nl") => db' = db

\* C7: the status of every finished GET of the endpoint is the one the claim
\* gives, and the step of the endpoint leaves the store as it was
C7_NaturalLanguageStatus == [](C7_Status) /\ [][C7_StoreUnchanged]_vars

\* a query with both bounds equal was answered 200 over a store of two records
C7_Witness ==
    \E t \in Threads :
        /\ Done(t) /\ IsNlGet(req[t]) /\ resp[t].status = 200
        /\ LET f == resp[t].body.interpreted_query.parsed_filters
           IN  /\ {"min_length", "max_length"} \subseteq DOMAIN f
               /\ f["min_length"] = f["max_length"]
        /\ Len(db) >= 2

(***************************************************************************)
(* C8.  DELETE of a stored value returns 204 and removes exactly its       *)
(* record; GET of a value that is not stored returns 404; a POST of a      *)
(* deleted value that returns 201 gives the record the id of the record    *)
(* that was deleted; DELETE of a value that is not stored returns 404 and  *)
(* leaves the store unchanged.                                             *)
(***************************************************************************)
Stored(d, value) == \E i \in 1..Len(d) : d[i].value = value

C8_DeleteStep ==
    \A t \in Threads :
        /\ (Step(t, "detail_act", "done") /\ IsDetail(req[t], "DELETE"))
               => /\ resp'[t].status = 204
                  /\ Stored(db, req[t].string_value)
                  /\ db' = Without(db, req[t].string_value)
                  /\ Len(db') = Len(db) - 1
                  /\ ~HashPresent(db', req[t].string_value)
        /\ (pc[t] = "idle" /\ IsDetail(req'[t], "DELETE") /\ ~Stored(db, req'[t].string_value))
               => (pc'[t] = "done" /\ resp'[t].status = 404 /\ db' = db)
        /\ (pc[t] = "idle" /\ IsDetail(req'[t], "DELETE") /\ Stored(db, req'[t].string_value))
               => (pc'[t] = "detail_act" /\ db' = db)

C8_Answers ==
    \A t \in Threads :
        Done(t) =>
            /\ IsDetail(req[t], "GET")
                   => resp[t].status = IF Stored(db, req[t].string_value) THEN 200 ELSE 404
            /\ (WellFormedPost(req[t]) /\ PostedValue(req[t]) \in DOMAIN deleted)
                   => /\ resp[t].status \in {201, 409}
                      /\ resp[t].status = 201 => resp[t].body.id = deleted[PostedValue(req[t])]

C9_NoLookupError ==
    \A t \in Threads :
        (Done(t) /\ req[t].view = "detail") => resp[t].status \in {200, 204, 404}

(***************************************************************************)
(* C10.  A 200 response of the natural-language endpoint holds the data    *)
(* that GET /strings returns for the parsed filter values over the same    *)
(* store, which are the stored records satisfying every parsed filter, and *)
(* count is their number.                                                  *)
(***************************************************************************)
\* the query string of GET /strings that carries the filters f
ParamsOf(f) ==
    [n \in DOMAIN f |->
        IF n = "is_palindrome" THEN (IF f[n] THEN "true" ELSE "false")
        ELSE IF n \in IntNames THEN IntToStr(f[n])
        ELSE f[n]]

\* C10: the data of a 200 response of the natural-language endpoint is the
\* data of GET /strings for the parsed filters written as a query string
C10_SameAsExplicitFilter ==
    \A t \in Threads :
        (Done(t) /\ IsNlGet(req[t]) /\ resp[t].status = 200)
            => LET f == resp[t].body.interpreted_query.parsed_filters
                   explicit == strings_get(db, ParamsOf(f))
               IN  /\ explicit.status = 200
                   /\ resp[t].body.data = explicit.body.data
                   /\ resp[t].body.count = Len(resp[t].body.data)
                   /\ resp[t].body.data = SelectSeq(db, LAMBDA e :
                          \A n \in DOMAIN f : Satisfies(e, n, f[n]))

\* two parsed filters kept some of the stored records and dropped others
C10_Witness ==
    \E t \in Threads :
        /\ Done(t) /\ IsNlGet(req[t]) /\ resp[t].status = 200
        /\ Cardinality(DOMAIN resp[t].body.interpreted_query.parsed_filters) >= 2
        /\ resp[t].body.count >= 1 /\ resp[t].body.count < Len(db)

=============================================================================
